---- MODULE Spec2Model ----
(***************************************************************************)
(* bevy_asset_tar: an in-memory store of files and directories decoded     *)
(* from tar / tar.gz buffers (src/src/archive.rs) and the lazily built,    *)
(* mutex-guarded instance of it behind the asset reader (src/src/lib.rs).  *)
(*                                                                         *)
(* SpecArchive drives one Archive object through append and the queries.   *)
(* Spec drives one TarAssetReader through concurrent callers.              *)
(***************************************************************************)
EXTENDS Integers, Sequences, FiniteSets, TLC

\* --------------------------------------------------------------- bounds
\* Longest entry list of one tar buffer.
MaxEntries == 2

\* ---------------------------------------------------------------- paths
\* A path is the sequence of its components; a leading "./" is the
\* component "." (Rust keeps a leading CurDir component, so "./d/a" and
\* "d/a" are different paths until the prefix is stripped).
Paths == { <<"d">>, <<"d", "a">>, <<"d", "a", "b">> }

RawPaths == Paths \cup { <<".">>, <<".", "d", "a">> }

Data == { "hello", "world" }

StripPrefixNone(path) == path

\* path.strip_prefix("./"), falling back to the path itself.
StripPrefix(path) ==
  IF Len(path) > 0 /\ path[1] = "." THEN Tail(path) ELSE path

\* Path::parent as a set: empty for the empty path, else the one parent.
Parent(p) ==
  IF Len(p) = 0 THEN {} ELSE { SubSeq(p, 1, Len(p) - 1) }

\* -------------------------------------------------------------- buffers
ArchiveFileKind == { "Tar", "TarGz" }

\* tar::EntryType as far as read_tar tells them apart, plus "Corrupt": an
\* entry whose header or body cannot be read (entry?, path()?, read_to_end?).
Entries ==
       [ type : {"Regular"}, path : { <<"d", "a">>, <<".", "d", "a">> }, data : Data ]
  \cup [ type : {"Regular"}, path : { <<"d">>, <<"d", "a", "b">> }, data : {"hello"} ]
  \cup [ type : {"Directory"}, path : { <<".">>, <<"d">>, <<"d", "a">> }, data : {""} ]
  \cup [ type : {"Symlink"}, path : { <<"d">> }, data : {""} ]
  \cup [ type : {"Corrupt"}, path : { <<"d">> }, data : {""} ]

RECURSIVE SeqsUpTo(_, _)
SeqsUpTo(S, n) ==
  IF n = 0 THEN { <<>> }
  ELSE LET shorter == SeqsUpTo(S, n - 1)
       IN shorter \cup { Append(s, e) : s \in { t \in shorter : Len(t) = n - 1 }, e \in S }

EntrySeqs == SeqsUpTo(Entries, MaxEntries)

\* A byte buffer: a tar stream ("tar"), a gzip stream wrapping a tar stream
\* ("gz"), or a gzip stream that breaks off or fails its checksum ("badgz").
Buffers ==
       [ env : {"tar", "gz"}, entries : EntrySeqs ]
  \cup [ env : {"badgz"}, entries : { <<>> } ]

\* ---------------------------------------------------------------- state
VARIABLES
  files,      \* Archive.files : path -> content
  dirs,       \* Archive.dirs
  last,       \* the last call on the Archive and what it returned
  okDirs,     \* history: directory entries of the appends that returned Ok
  archive,    \* TarAssetReader.archive: {} is None, {store} is Some(store)
  lock,       \* the caller holding the Mutex, 0 when it is free
  pc,         \* where each caller's future stands
  loading,    \* load's local Archive under construction
  fileIdx,    \* load's position in archive_files
  dirIdx,     \* load_from_addon_dirs' position in dirs
  yielded,    \* entries the current directory stream has handed out
  fileKind,   \* the ArchiveFileKind of the file being read
  out,        \* what each caller's call returned
  passes,     \* history: construction passes begun
  fetches,    \* history: reader.read calls per archive file
  visited,    \* history: archive files and addon directories the pass reached
  log         \* history: the append calls of the pass, in order

avars == << files, dirs, last, okDirs >>

lvars == << archive, lock, pc, loading, fileIdx, dirIdx, yielded, fileKind, out,
            passes, fetches, visited, log >>

vars == << files, dirs, last, okDirs, archive, lock, pc, loading, fileIdx, dirIdx,
           yielded, fileKind, out, passes, fetches, visited, log >>

EmptyMap == [ p \in {} |-> "" ]

InsertIfAbsent(f, path, data) ==
  [ p \in DOMAIN f \cup {path} |-> IF p \in DOMAIN f THEN f[p] ELSE data ]

\* self.files.insert(path, file)
Insert(f, path, data) ==
  [ p \in DOMAIN f \cup {path} |-> IF p = path THEN data ELSE f[p] ]

IsEmptyNever(path) == FALSE

\* path.as_os_str().is_empty()
IsEmpty(path) == path = <<>>

\* Archive::read_tar on the entries of a tar stream: self is changed entry by
\* entry, so the files and dirs of an Err result are those at the return.
RECURSIVE ReadTarLoop(_, _, _)
ReadTarLoop(f, d, es) ==
  IF es = <<>> THEN [ ok |-> TRUE, files |-> f, dirs |-> d ]
  ELSE
    LET e == Head(es)
        path == StripPrefix(e.path)
    IN IF e.type = "Corrupt" THEN [ ok |-> FALSE, files |-> f, dirs |-> d ]
       ELSE IF IsEmpty(path) THEN ReadTarLoop(f, d, Tail(es))
       ELSE IF e.type = "Regular"
         THEN ReadTarLoop(Insert(f, path, e.data), d, Tail(es))
       ELSE IF e.type = "Directory"
         THEN ReadTarLoop(f, d \cup {path}, Tail(es))
       ELSE [ ok |-> FALSE, files |-> f, dirs |-> d ]

\* read_tar on a buffer: bytes that are no tar stream fail at the first header.
ReadTar(f, d, input) ==
  IF input.env = "tar" THEN ReadTarLoop(f, d, input.entries)
  ELSE [ ok |-> FALSE, files |-> f, dirs |-> d ]

\* Archive::read_tar_gz: inflate the whole buffer, then read_tar.
ReadTarGz(f, d, input) ==
  IF input.env = "gz"
    THEN ReadTar(f, d, [ env |-> "tar", entries |-> input.entries ])
    ELSE [ ok |-> FALSE, files |-> f, dirs |-> d ]

\* Archive::append
ArchiveAppend(f, d, kind, input) ==
  IF kind = "Tar" THEN ReadTar(f, d, input) ELSE ReadTarGz(f, d, input)

\* Archive::read_file
ReadFile(f, path) ==
  IF path \in DOMAIN f THEN [ ok |-> TRUE, v |-> f[path] ]
  ELSE [ ok |-> FALSE, err |-> "NotFound" ]

\* Archive::is_dir
IsDir(f, d, path) ==
  IF path \in d THEN [ ok |-> TRUE, v |-> TRUE ]
  ELSE IF path \in DOMAIN f THEN [ ok |-> TRUE, v |-> FALSE ]
  ELSE [ ok |-> FALSE, err |-> "NotFound" ]

\* to_asset_reader_err: the AssetReaderError an io::Error kind becomes.
ToAssetReaderErr(e) == IF e = "NotFound" THEN "NotFound" ELSE "Io"

\* All orders in which a HashMap / HashSet may hand out the members of S.
RECURSIVE Orders(_)
Orders(S) ==
  IF S = {} THEN { <<>> }
  ELSE UNION { { <<x>> \o t : t \in Orders(S \ {x}) } : x \in S }

DescendantOf(p, path) ==
  /\ Len(p) > Len(path)
  /\ SubSeq(p, 1, Len(path)) = path

\* The test of read_dir's two loops: p.parent() is Some(parent) and parent == path.
ChildOf(p, path) == \E parent \in Parent(p) : parent = path

\* Archive::read_dir: the Vec it may build, the children among the files'
\* keys first, those among dirs after them, each in iteration order.
DirVecs(f, d, path) ==
  { a \o b : a \in Orders({ p \in DOMAIN f : ChildOf(p, path) }),
              b \in Orders({ p \in d : ChildOf(p, path) }) }

ReadDirLenient(f, d, path) ==
  IF path \in d THEN { [ ok |-> TRUE, v |-> vec ] : vec \in DirVecs(f, d, path) }
  ELSE { [ ok |-> TRUE, v |-> <<>> ] }

ReadDir(f, d, path) ==
  LET isdir == IsDir(f, d, path)
  IN IF ~isdir.ok THEN { [ ok |-> FALSE, err |-> isdir.err ] }
     ELSE IF ~isdir.v THEN { [ ok |-> FALSE, err |-> "Other" ] }
     ELSE { [ ok |-> TRUE, v |-> vec ] : vec \in DirVecs(f, d, path) }

\* ------------------------------------------------- history of an append
\* The content the buffer's last regular entry for path p carries, as a set.
LastRegular(es, p) ==
  LET hits == { i \in 1..Len(es) : es[i].type = "Regular" /\ StripPrefix(es[i].path) = p }
  IN IF hits = {} THEN {}
     ELSE { es[CHOOSE i \in hits : \A j \in hits : j <= i].data }

Wrote(input) ==
  [ p \in { q \in Paths : LastRegular(input.entries, q) # {} } |->
      CHOOSE x \in LastRegular(input.entries, p) : TRUE ]

\* What read_tar refuses: bytes in the wrong envelope, an entry that cannot be
\* read, an entry that is neither a regular file nor a directory.
Refused(kind, input) ==
  \/ kind = "Tar" /\ input.env # "tar"
  \/ kind = "TarGz" /\ input.env # "gz"
  \/ \E i \in 1..Len(input.entries) :
       \/ input.entries[i].type = "Corrupt"
       \/ /\ input.entries[i].type = "Symlink"
          /\ StripPrefix(input.entries[i].path) # <<>>

DirEntries(input) ==
  { StripPrefix(input.entries[i].path) : i \in { j \in 1..Len(input.entries) :
        input.entries[j].type = "Directory" } } \ { <<>> }

\* ------------------------------------------------------- configuration
\* Concurrent callers of the reader.
NCallers == 2

\* Longest listing an addon directory hands out.
MaxDirEntries == 2

Callers == 1..NCallers

Contains(file, ext) ==
  \E i \in 1..(Len(file) - Len(ext) + 1) : SubSeq(file, i, i + Len(ext) - 1) = ext

\* A file name is the sequence of its stem and dotted parts, so that
\* ends_with is the suffix test on sequences.
EndsWith(file, ext) ==
  /\ Len(ext) <= Len(file)
  /\ SubSeq(file, Len(file) - Len(ext) + 1, Len(file)) = ext

\* ArchiveFileExtensionList::default
DefaultExtensionList ==
  { [ ext |-> << ".tar" >>, kind |-> "Tar" ],
    [ ext |-> << ".tar", ".gz" >>, kind |-> "TarGz" ],
    [ ext |-> << ".tgz" >>, kind |-> "TarGz" ] }

\* ArchiveFileExtensionList::from_path: find_map over the HashMap hands back
\* the kind of whichever matching rule the iteration meets first; {} is None.
FromPath(list, path) ==
  { rule.kind : rule \in { r \in list : EndsWith(path, r.ext) } }

\* AssetTarPlugin.archive_files
ArchiveFiles ==
  << << "assets", ".tar", ".gz" >>, << "readme", ".txt" >>, << "extra", ".tar" >> >>

\* AssetTarPlugin.addon_directories
AddonDirectories == << "mods" >>

\* The names an addon directory's listing may hand out.
AddonNames == { << "mods", "m", ".tgz" >>, << "mods", "notes", ".txt" >> }

\* The contents the byte source and the file system may hand out.
SourceBuffers ==
  { [ env |-> "gz",
      entries |-> << [ type |-> "Directory", path |-> <<"d">>, data |-> "" ],
                     [ type |-> "Regular", path |-> <<"d", "a">>, data |-> "hello" ],
                     [ type |-> "Regular", path |-> <<"d", "a.meta">>, data |-> "world" ],
                     [ type |-> "Regular", path |-> <<"c.png">>, data |-> "hello" ],
                     [ type |-> "Regular", path |-> <<"c.png.meta">>, data |-> "world" ] >> ],
    [ env |-> "gz",
      entries |-> << [ type |-> "Regular", path |-> <<"d", "a">>, data |-> "world" ],
                     [ type |-> "Symlink", path |-> <<"d">>, data |-> "" ] >> ],
    [ env |-> "tar",
      entries |-> << [ type |-> "Regular", path |-> <<"d", "a">>, data |-> "world" ],
                     [ type |-> "Regular", path |-> <<"d", "a", "b">>, data |-> "hello" ] >> ],
    [ env |-> "tar",
      entries |-> << [ type |-> "Regular", path |-> <<"d", "a">>, data |-> "world" ],
                     [ type |-> "Corrupt", path |-> <<"d">>, data |-> "" ] >> ] }

\* A Vec::new() handed to append when the reader could not be opened.
EmptyBuffer == [ env |-> "tar", entries |-> <<>> ]

\* Archive::new
NewArchive == [ files |-> EmptyMap, dirs |-> {} ]

InitLoader ==
  /\ archive = {}
  /\ lock = 0
  /\ pc = [ c \in Callers |-> "idle" ]
  /\ loading = NewArchive
  /\ fileIdx = 0
  /\ dirIdx = 0
  /\ yielded = 0
  /\ fileKind = "Tar"
  /\ out = [ c \in Callers |-> [ kind |-> "none" ] ]
  /\ passes = 0
  /\ fetches = [ i \in 1..Len(ArchiveFiles) |-> 0 ]
  /\ visited = {}
  /\ log = <<>>

\* ---------------------------------------------------------- SpecArchive
QueryPaths == RawPaths \cup { <<>> }

InitArchive ==
  /\ files = EmptyMap
  /\ dirs = {}
  /\ last = [ op |-> "new" ]
  /\ okDirs = {}
  /\ InitLoader

\* archive.append(kind, input) on an Archive still under construction
AppendCall ==
  /\ last.op \in { "new", "append" }
  /\ \E kind \in ArchiveFileKind, input \in Buffers :
       LET r == ArchiveAppend(files, dirs, kind, input)
           w == Wrote(input)
       IN /\ files' = r.files
          /\ dirs' = r.dirs
          /\ last' = [ op |-> "append", ok |-> r.ok,
                       refused |-> Refused(kind, input),
                       wrote |-> IF r.ok THEN w ELSE EmptyMap,
                       over |-> IF r.ok
                                  THEN { p \in DOMAIN w \cap DOMAIN files : files[p] # w[p] }
                                  ELSE {} ]
          /\ okDirs' = IF r.ok THEN okDirs \cup DirEntries(input) ELSE okDirs
  /\ UNCHANGED lvars

ReadFileCall ==
  \E path \in QueryPaths :
    /\ last' = [ op |-> "read_file", path |-> path, res |-> ReadFile(files, path) ]
    /\ UNCHANGED << files, dirs, okDirs, lvars >>

IsDirCall ==
  \E path \in QueryPaths :
    /\ last' = [ op |-> "is_dir", path |-> path, res |-> IsDir(files, dirs, path) ]
    /\ UNCHANGED << files, dirs, okDirs, lvars >>

ReadDirCall ==
  \E path \in QueryPaths :
    \E res \in ReadDir(files, dirs, path) :
      /\ last' = [ op |-> "read_dir", path |-> path, res |-> res ]
      /\ UNCHANGED << files, dirs, okDirs, lvars >>

\* Dir::poll_next on the Dir the last read_dir returned: Vec::pop hands out
\* the last element, or None once the Vec is empty.
PollNext ==
  /\ \/ last.op = "read_dir" /\ last.res.ok
     \/ last.op = "poll_next"
  /\ LET vec == IF last.op = "read_dir" THEN last.res.v ELSE last.dir
         got == IF last.op = "read_dir" THEN <<>> ELSE last.got
     IN last' = IF vec = <<>>
                  THEN [ op |-> "poll_next", path |-> last.path, dir |-> <<>>,
                         item |-> {}, got |-> got ]
                  ELSE [ op |-> "poll_next", path |-> last.path,
                         dir |-> SubSeq(vec, 1, Len(vec) - 1),
                         item |-> { vec[Len(vec)] },
                         got |-> Append(got, vec[Len(vec)]) ]
  /\ UNCHANGED << files, dirs, okDirs, lvars >>

NextArchive == AppendCall \/ ReadFileCall \/ IsDirCall \/ ReadDirCall \/ PollNext

SpecArchive == InitArchive /\ [][NextArchive]_vars

\* -------------------------------------------------------- SpecClassify
\* Longest file name, in parts, handed to from_path.
MaxParts == 3

NameParts == { "x", ".tar", ".gz", ".tgz", ".txt" }

FileNames == SeqsUpTo(NameParts, MaxParts) \ { <<>> }

\* A rule map as code inside the crate can build it (the map is pub(crate)):
\* the default rules and ".gz" with another kind than ".tar.gz".
OverlappingExtensionList ==
  DefaultExtensionList \cup { [ ext |-> << ".gz" >>, kind |-> "Tar" ] }

ExtensionLists ==
  [ default |-> DefaultExtensionList, overlapping |-> OverlappingExtensionList ]

\* list.from_path(path): Some(kind) of a matching rule, as {kind}, or None, as {}.
FromPathCall ==
  \E name \in DOMAIN ExtensionLists, path \in FileNames :
    LET kinds == FromPath(ExtensionLists[name], path)
    IN \E res \in IF kinds = {} THEN { {} } ELSE { { k } : k \in kinds } :
         /\ last' = [ op |-> "from_path", list |-> name, path |-> path, res |-> res ]
         /\ UNCHANGED << files, dirs, okDirs, lvars >>

NextClassify == FromPathCall

SpecClassify == InitArchive /\ [][NextClassify]_vars

\* ---------------------------------------------------------------- Spec
\* The archive files from position i on whose extension from_path knows.
KnownFrom(i) ==
  { j \in i..Len(ArchiveFiles) : FromPath(DefaultExtensionList, ArchiveFiles[j]) # {} }

\* The next file the for loop of load reads: those with an unknown extension
\* are passed over by `continue` without an await.
NextFile(i) ==
  IF KnownFrom(i) = {} THEN Len(ArchiveFiles) + 1
  ELSE CHOOSE j \in KnownFrom(i) : \A k \in KnownFrom(i) : j <= k

FilesReached(i, j) ==
  { << "file", n >> : n \in { m \in i..j : m <= Len(ArchiveFiles) } }

\* `*archive = Some(loading)` and the MutexGuard::map that hands the caller
\* the built Archive: the caller goes on to its query with the lock held.
\* The locals of load_from_addon_dirs are gone by then.
Publish(c, ld, lg, vis) ==
  /\ archive' = { ld }
  /\ pc' = [ pc EXCEPT ![c] = "query" ]
  /\ loading' = ld
  /\ log' = lg
  /\ visited' = vis
  /\ yielded' = 0
  /\ fileKind' = "Tar"
  /\ UNCHANGED << fileIdx, dirIdx, out >>

\* load_from_addon_dirs from directory j on, up to its next await.
ContinueDirs(c, j, ld, lg, vis) ==
  IF j <= Len(AddonDirectories)
    THEN /\ pc' = [ pc EXCEPT ![c] = "scan" ]
         /\ dirIdx' = j
         /\ visited' = vis \cup { << "dir", j >> }
         /\ loading' = ld
         /\ log' = lg
         /\ UNCHANGED << archive, fileIdx, yielded, fileKind, out >>
    ELSE Publish(c, ld, lg, vis)

ContinueFilesInPlace(c, i, ld, lg, vis) ==
  LET j == NextFile(i)
  IN IF j <= Len(ArchiveFiles)
       THEN /\ pc' = [ pc EXCEPT ![c] = "open" ]
            /\ fileIdx' = j
            /\ \E k \in FromPath(DefaultExtensionList, ArchiveFiles[j]) : fileKind' = k
            /\ visited' = vis \cup FilesReached(i, j)
            /\ loading' = ld
            /\ log' = lg
            /\ archive' = { ld }
            /\ UNCHANGED << dirIdx, yielded, out >>
       ELSE ContinueDirs(c, 1, ld, lg, vis \cup FilesReached(i, j))

\* The for loop of load from file i on, up to its next await.
ContinueFiles(c, i, ld, lg, vis) ==
  LET j == NextFile(i)
  IN IF j <= Len(ArchiveFiles)
       THEN /\ pc' = [ pc EXCEPT ![c] = "open" ]
            /\ fileIdx' = j
            /\ \E k \in FromPath(DefaultExtensionList, ArchiveFiles[j]) : fileKind' = k
            /\ visited' = vis \cup FilesReached(i, j)
            /\ loading' = ld
            /\ log' = lg
            /\ UNCHANGED << archive, dirIdx, yielded, out >>
       ELSE ContinueDirs(c, 1, ld, lg, vis \cup FilesReached(i, j))

\* The files an append of buf inserts: those an empty Archive holds after it.
Defines(k, buf) == ArchiveAppend(EmptyMap, {}, k, buf).files

AppendedKeepOld(ld, k, buf) ==
  LET r == ArchiveAppend(ld.files, ld.dirs, k, buf)
  IN [ ok |-> r.ok,
       store |-> [ files |-> [ p \in DOMAIN r.files |->
                                 IF p \in DOMAIN ld.files THEN ld.files[p] ELSE r.files[p] ],
                   dirs |-> r.dirs ] ]

\* loading.append(kind, buf) and the warning that is all a failure leads to.
Appended(ld, k, buf) ==
  LET r == ArchiveAppend(ld.files, ld.dirs, k, buf)
  IN [ ok |-> r.ok, store |-> [ files |-> r.files, dirs |-> r.dirs ] ]

\* A caller calls read, read_meta, read_directory or is_directory: load's
\* self.archive.lock() is pending.
Call(c) ==
  /\ pc[c] = "idle"
  /\ pc' = [ pc EXCEPT ![c] = "lock" ]
  /\ UNCHANGED << archive, lock, loading, fileIdx, dirIdx, yielded, fileKind, out,
                  passes, fetches, visited, log, avars >>

\* The lock is granted and the archive is Some: load returns the guard.
AcquireBuilt(c) ==
  /\ pc[c] = "lock"
  /\ lock = 0
  /\ archive # {}
  /\ lock' = c
  /\ pc' = [ pc EXCEPT ![c] = "query" ]
  /\ UNCHANGED << archive, loading, fileIdx, dirIdx, yielded, fileKind, out,
                  passes, fetches, visited, log, avars >>

\* The lock is granted and the archive is None: construction begins.
AcquireUnbuilt(c) ==
  /\ pc[c] = "lock"
  /\ lock = 0
  /\ archive = {}
  /\ passes' = passes + 1
  /\ lock' = c
  /\ UNCHANGED << fetches, avars >>
  /\ ContinueFiles(c, 1, NewArchive, <<>>, {})

\* self.reader.read(file).await returns.
OpenFile(c) ==
  /\ pc[c] = "open"
  /\ fetches' = [ fetches EXCEPT ![fileIdx] = @ + 1 ]
  /\ UNCHANGED << passes, avars >>
  /\ \/ \* Ok(r): on to r.read_to_end
        /\ pc' = [ pc EXCEPT ![c] = "read" ]
        /\ UNCHANGED << archive, lock, loading, fileIdx, dirIdx, yielded, fileKind,
                        out, visited, log >>
     \/ \* Err: buf stays empty and is appended all the same
        LET a == Appended(loading, fileKind, EmptyBuffer)
        IN /\ UNCHANGED lock
           /\ ContinueFiles(c, fileIdx + 1, a.store,
                            Append(log, [ src |-> << "file", fileIdx >>, ok |-> a.ok,
                                          fetched |-> FALSE,
                                          wrote |-> Defines(fileKind, EmptyBuffer) ]),
                            visited)

\* r.read_to_end(&mut buf).await returns.
ReadFileToEnd(c) ==
  /\ pc[c] = "read"
  /\ UNCHANGED << passes, fetches, avars >>
  /\ \/ \* Ok: append, warn on a failure, next file
        \E buf \in SourceBuffers :
          LET a == Appended(loading, fileKind, buf)
          IN /\ UNCHANGED lock
             /\ ContinueFiles(c, fileIdx + 1, a.store,
                              Append(log, [ src |-> << "file", fileIdx >>, ok |-> a.ok,
                                            fetched |-> TRUE,
                                            wrote |-> Defines(fileKind, buf) ]),
                              visited)
     \/ \* Err: `?` returns it from load; the guard is dropped
        /\ pc' = [ pc EXCEPT ![c] = "done" ]
        /\ out' = [ out EXCEPT ![c] = [ kind |-> "Io" ] ]
        /\ lock' = 0
        /\ UNCHANGED << archive, loading, fileIdx, dirIdx, yielded, fileKind,
                        visited, log >>

\* async_fs::read_dir(dir).await returns.
ScanDir(c) ==
  /\ pc[c] = "scan"
  /\ UNCHANGED << passes, fetches, avars >>
  /\ \/ \* Ok(entries)
        /\ pc' = [ pc EXCEPT ![c] = "next" ]
        /\ yielded' = 0
        /\ UNCHANGED << archive, lock, loading, fileIdx, dirIdx, fileKind, out,
                        visited, log >>
     \/ \* Err: warn, next directory
        /\ UNCHANGED lock
        /\ ContinueDirs(c, dirIdx + 1, loading, log, visited)

\* entries.try_next().await returns.
NextEntry(c) ==
  /\ pc[c] = "next"
  /\ UNCHANGED << passes, fetches, avars >>
  /\ \/ \* Ok(Some(entry))
        /\ yielded < MaxDirEntries
        /\ yielded' = yielded + 1
        /\ \E path \in AddonNames :
             IF FromPath(DefaultExtensionList, path) = {}
               THEN UNCHANGED << pc, fileKind >>
               ELSE /\ pc' = [ pc EXCEPT ![c] = "fread" ]
                    /\ \E k \in FromPath(DefaultExtensionList, path) : fileKind' = k
        /\ UNCHANGED << archive, lock, loading, fileIdx, dirIdx, out, visited, log >>
     \/ \* Ok(None), or Err and its warning: next directory
        /\ UNCHANGED lock
        /\ ContinueDirs(c, dirIdx + 1, loading, log, visited)

\* async_fs::read(&path).await returns.
ReadAddon(c) ==
  /\ pc[c] = "fread"
  /\ UNCHANGED << passes, fetches, avars >>
  /\ pc' = [ pc EXCEPT ![c] = "next" ]
  /\ \/ \* Ok(bytes)
        \E buf \in SourceBuffers :
          LET a == Appended(loading, fileKind, buf)
          IN /\ loading' = a.store
             /\ log' = Append(log, [ src |-> << "dir", dirIdx >>, ok |-> a.ok,
                                     fetched |-> TRUE,
                                     wrote |-> Defines(fileKind, buf) ])
     \/ \* Err: warn
        UNCHANGED << loading, log >>
  /\ UNCHANGED << archive, lock, fileIdx, dirIdx, yielded, fileKind, out, visited >>

\* A file name as the parts its dots separate: "a.png" is a, png and
\* "a..meta" is a, "", meta. Joining two names with a dot joins their parts.
Split(name) ==
  CASE name = "a.meta" -> << "a", "meta" >>
    [] name = "a..meta" -> << "a", "", "meta" >>
    [] name = "d.meta" -> << "d", "meta" >>
    [] name = "d..meta" -> << "d", "", "meta" >>
    [] name = "c.png" -> << "c", "png" >>
    [] name = "c.png.meta" -> << "c", "png", "meta" >>
    [] OTHER -> << name >>

DottedNames == { "a.meta", "a..meta", "d.meta", "d..meta", "c.png", "c.png.meta" }

Join(parts) ==
  IF \E n \in DottedNames : Split(n) = parts
    THEN CHOOSE n \in DottedNames : Split(n) = parts
  ELSE IF Len(parts) = 1 THEN parts[1]
  ELSE "?"

\* Path::extension of a file name, as a set: what follows the last dot, none
\* for a name without a dot or with its only dot in front.
Extension(parts) ==
  LET n == Len(parts)
  IN IF n = 1 \/ (n = 2 /\ parts[1] = "") THEN {} ELSE { parts[n] }

\* Path::file_stem
FileStem(parts) ==
  IF Extension(parts) = {} THEN parts ELSE SubSeq(parts, 1, Len(parts) - 1)

\* PathBuf::set_extension: the stem, a dot, the new extension.
SetExtension(parts, ext) == FileStem(parts) \o ext

\* read_meta's meta_path: the extension (or the empty string) with ".meta"
\* pushed onto it is set as the path's extension; a path without a file
\* name is left as it is.
MetaPath(path) ==
  IF path = <<>> THEN path
  ELSE LET parts == Split(path[Len(path)])
           extension == IF Extension(parts) = {} THEN << "" >>
                        ELSE << CHOOSE e \in Extension(parts) : TRUE >>
           pushed == extension \o << "meta" >>
       IN SubSeq(path, 1, Len(path) - 1) \o << Join(SetExtension(parts, pushed)) >>

\* The calls the callers make.
Requests ==
  { [ op |-> "read", path |-> << "d", "a" >> ],
    [ op |-> "read_meta", path |-> << "d", "a" >> ],
    [ op |-> "read_meta", path |-> << "c.png" >> ],
    [ op |-> "read_directory", path |-> << "d" >> ],
    [ op |-> "is_directory", path |-> << "d", "a" >> ] }

\* An io result as the AssetReader hands it on (to_asset_reader_err).
Handed(r) ==
  IF r.ok THEN r ELSE [ ok |-> FALSE, err |-> ToAssetReaderErr(r.err) ]

\* What read, read_meta, read_directory, is_directory may return on a store.
Answers(store, q) ==
  CASE q.op = "read" -> { Handed(ReadFile(store.files, q.path)) }
    [] q.op = "read_meta" -> { Handed(ReadFile(store.files, MetaPath(q.path))) }
    [] q.op = "read_directory" ->
         { Handed(r) : r \in ReadDir(store.files, store.dirs, q.path) }
    [] q.op = "is_directory" -> { Handed(IsDir(store.files, store.dirs, q.path)) }

QueryTakes(c) ==
  /\ pc[c] = "query"
  /\ lock = c
  /\ \E store \in archive, q \in Requests :
       /\ out' = [ out EXCEPT ![c] = [ kind |-> "answered", from |-> store ] ]
       /\ \E res \in Answers(store, q) :
            last' = [ op |-> q.op, path |-> q.path, res |-> res ]
  /\ pc' = [ pc EXCEPT ![c] = "done" ]
  /\ lock' = 0
  /\ archive' = {}
  /\ UNCHANGED << loading, fileIdx, dirIdx, yielded, fileKind,
                  passes, fetches, visited, log, files, dirs, okDirs >>

QueryKeepsLock(c) ==
  /\ pc[c] = "query"
  /\ lock = c
  /\ \E store \in archive, q \in Requests :
       /\ out' = [ out EXCEPT ![c] = [ kind |-> "answered", from |-> store ] ]
       /\ \E res \in Answers(store, q) :
            last' = [ op |-> q.op, path |-> q.path, res |-> res ]
  /\ pc' = [ pc EXCEPT ![c] = "done" ]
  /\ UNCHANGED << archive, lock, loading, fileIdx, dirIdx, yielded, fileKind,
                  passes, fetches, visited, log, files, dirs, okDirs >>

\* The caller's query on the Archive behind the guard; the guard is dropped
\* as the call returns.
Query(c) ==
  /\ pc[c] = "query"
  /\ lock = c
  /\ \E store \in archive, q \in Requests :
       /\ out' = [ out EXCEPT ![c] = [ kind |-> "answered", from |-> store ] ]
       /\ \E res \in Answers(store, q) :
            last' = [ op |-> q.op, path |-> q.path, res |-> res ]
  /\ pc' = [ pc EXCEPT ![c] = "done" ]
  /\ lock' = 0
  /\ UNCHANGED << archive, loading, fileIdx, dirIdx, yielded, fileKind,
                  passes, fetches, visited, log, files, dirs, okDirs >>

\* The caller's future is dropped at an await: a guard it holds is dropped
\* with it, load's locals are gone.
Suspended == { "lock", "open", "read", "scan", "next", "fread" }

Cancel(c) ==
  /\ pc[c] \in Suspended
  /\ pc' = [ pc EXCEPT ![c] = "cancelled" ]
  /\ lock' = IF lock = c THEN 0 ELSE lock
  /\ UNCHANGED << archive, loading, fileIdx, dirIdx, yielded, fileKind, out,
                  passes, fetches, visited, log, avars >>

Init ==
  /\ files = EmptyMap
  /\ dirs = {}
  /\ last = [ op |-> "new" ]
  /\ okDirs = {}
  /\ InitLoader

Next ==
  \E c \in Callers :
    \/ Call(c)
    \/ AcquireBuilt(c)
    \/ AcquireUnbuilt(c)
    \/ OpenFile(c)
    \/ ReadFileToEnd(c)
    \/ ScanDir(c)
    \/ NextEntry(c)
    \/ ReadAddon(c)
    \/ Query(c)

NextCancel == Next \/ \E c \in Callers : Cancel(c)

Spec == Init /\ [][Next]_vars

SpecCancel == Init /\ [][NextCancel]_vars

\* The steps that do not wait for a caller to call: the lock being granted
\* to a waiting caller, an await of the lock holder returning, its query.
Progress ==
  \E c \in Callers :
    \/ AcquireBuilt(c)
    \/ AcquireUnbuilt(c)
    \/ OpenFile(c)
    \/ ReadFileToEnd(c)
    \/ ScanDir(c)
    \/ NextEntry(c)
    \/ ReadAddon(c)
    \/ Query(c)

\* The free lock is granted to a waiting caller, and every fetch, directory
\* scan and file read returns: a step that is pending is taken in the end.
SpecFair == Init /\ [][Next]_vars /\ WF_vars(Progress)

\* -------------------------------------------------- claims on the reader
Known == KnownFrom(1)

AllReached ==
  FilesReached(1, Len(ArchiveFiles)) \cup { << "dir", j >> : j \in 1..Len(AddonDirectories) }

\* C1: whatever the interleaving of the callers, one construction pass is
\* begun, each archive file is read once, and every caller that returns has
\* answered from the one built Archive.
C1_ExactlyOnePass ==
  /\ passes <= 1
  /\ \A i \in Known : fetches[i] <= 1
  /\ archive # {} => \A i \in Known : fetches[i] = 1
  /\ \A c \in Callers : pc[c] = "done" =>
       (out[c].kind = "answered" /\ archive = { out[c].from })

\* C2: the archive is None or the Archive of a pass that reached every
\* archive file and every addon directory; a caller dropped while it
\* constructs leaves the lock free and the archive None; and every pass
\* begins from Archive::new.
C2_PublishedIsComplete ==
  /\ [](archive # {} => (archive = { loading } /\ visited = AllReached))
  /\ [][ (\E c \in Callers : lock = c /\ pc[c] # "query" /\ pc'[c] = "cancelled")
           => (lock' = 0 /\ archive = {} /\ archive' = {}) ]_vars
  /\ [][ passes' # passes => (loading' = NewArchive /\ log' = <<>>) ]_vars

C2_Witness ==
  /\ passes = 2
  /\ archive # {}
  /\ \E c \in Callers : pc[c] = "cancelled"
  /\ \A c \in Callers : out[c].kind # "Io"
  /\ \E store \in archive : store.files # EmptyMap

\* C6: no failure to open or read an archive file, and no unknown extension,
\* makes a call fail: every caller that returns has answered from the built
\* Archive.
C6_AcquisitionNeverFatal ==
  \A c \in Callers :
    /\ out[c].kind # "Io"
    /\ pc[c] = "done" => (archive # {} /\ out[c].kind = "answered")

Preserved(before, after) ==
  /\ before.dirs \subseteq after.dirs
  /\ \A p \in DOMAIN before.files :
       p \in DOMAIN after.files /\ after.files[p] = before.files[p]

\* C7: an append that fails on bytes that were read leaves everything merged
\* before it in place and the pass goes on, the lock still held by its caller.
C7_DecodeFailureKeepsEarlierMerges ==
  [][ ( /\ Len(log') = Len(log) + 1
        /\ ~log'[Len(log')].ok
        /\ log'[Len(log')].fetched )
      => ( /\ Preserved(loading, loading')
           /\ \E c \in Callers :
                lock = c /\ lock' = c /\ pc'[c] \in { "open", "scan", "next", "query" } ) ]_vars

\* ------------------------------------------------- claims on the Archive
Range(seq) == { seq[i] : i \in 1..Len(seq) }

\* C3: an append that fails leaves files and dirs as they were before the call.
C3_FailedAppendChangesNothing ==
  [][ (last'.op = "append" /\ ~last'.ok) => (files' = files /\ dirs' = dirs) ]_vars

\* C4: no path is at once a key of files and a member of dirs.
C4_FileXorDir == DOMAIN files \cap dirs = {}

\* C5: after a successful append, read_file of every path the buffer defines
\* as a regular file returns the content of the buffer's last such entry,
\* whatever the store held for it before; and an append of a buffer in the
\* right envelope holding only regular files and directories succeeds.
C5_LastWriteWins ==
  last.op = "append" =>
    /\ last.ok =>
         \A p \in DOMAIN last.wrote :
           ReadFile(files, p) = [ ok |-> TRUE, v |-> last.wrote[p] ]
    /\ ~last.refused => last.ok

C5_Witness ==
  /\ last.op = "append" /\ last.ok
  /\ <<"d", "a">> \in last.over
  /\ files[<<"d", "a">>] = "world"

C9_ImmediateChildren ==
  (last.op = "read_dir" /\ last.path \in dirs) =>
    /\ last.res.ok
    /\ Range(last.res.v) =
         { q \in DOMAIN files \cup dirs :
             /\ Len(q) = Len(last.path) + 1
             /\ \A i \in 1..Len(last.path) : q[i] = last.path[i] }

C9_Witness ==
  /\ last.op = "read_dir" /\ last.path = <<"d">> /\ last.res.ok
  /\ <<"d", "a", "b">> \in DOMAIN files
  /\ <<"d", "a">> \in Range(last.res.v)
  /\ <<"d", "a">> \notin dirs

\* C10: is_dir is true exactly for the directory entries of the appends that
\* succeeded, false exactly for the stored files, NotFound for the rest.
C10_IsDirExact ==
  last.op = "is_dir" =>
    /\ (last.res.ok /\ last.res.v) <=> last.path \in okDirs
    /\ (last.res.ok /\ ~last.res.v) <=> last.path \in DOMAIN files
    /\ ~last.res.ok <=> last.path \notin okDirs \cup DOMAIN files


\* C11: the sequence read_dir(P) returns delivers every selected child of P
\* exactly once, no path twice, and reports the end on every poll after that;
\* a second read_dir(P) on the same store selects the same set of children.
C11_EachChildOnce ==
  /\ last.op = "poll_next" =>
       /\ \A i, j \in DOMAIN last.got : i # j => last.got[i] # last.got[j]
       /\ Range(last.got) \cup Range(last.dir)
            = { p \in DOMAIN files \cup dirs : ChildOf(p, last.path) }
       /\ last.item = {} => last.dir = <<>>
  /\ \A path \in QueryPaths :
       \A r1, r2 \in ReadDir(files, dirs, path) :
         r1.ok => r2.ok /\ Range(r1.v) = Range(r2.v)


\* C14 as stated: the entries "./a/b" and "a/b" land on one key, an entry whose
\* path is empty after the strip lands nowhere, and a lookup in either
\* spelling finds the file.
C14_EitherSpellingFinds ==
  /\ DOMAIN files \cup dirs \subseteq Paths
  /\ (last.op = "read_file" /\ StripPrefix(last.path) \in DOMAIN files) =>
       last.res = [ ok |-> TRUE, v |-> files[StripPrefix(last.path)] ]

\* C14, amended: every key of files and every member of dirs is a stripped,
\* non-empty path, so that "./a/b" and "a/b" are one key and the later of the
\* two spellings in a buffer supplies the content; read_file compares the
\* path as given, so the "./a/b" spelling of a lookup is NotFound.
C14_StoredUnderStrippedKey ==
  /\ DOMAIN files \cup dirs \subseteq Paths
  /\ (last.op = "append" /\ last.ok) =>
       \A p \in DOMAIN last.wrote : p \in DOMAIN files /\ files[p] = last.wrote[p]
  /\ last.op = "read_file" =>
       /\ last.res.ok <=> last.path \in DOMAIN files
       /\ last.path \notin Paths => last.res = [ ok |-> FALSE, err |-> "NotFound" ]

C14_Witness ==
  /\ last.op = "read_file" /\ last.path = << ".", "d", "a" >>
  /\ << "d", "a" >> \in DOMAIN files
  /\ last.res = [ ok |-> FALSE, err |-> "NotFound" ]

\* C17: the empty path is never a key of files nor a member of dirs, is_dir
\* and read_dir of it are NotFound, and no read_dir delivers a top-level path.
C17_RootNeverStored ==
  /\ << >> \notin DOMAIN files \cup dirs
  /\ (last.op \in { "is_dir", "read_dir" } /\ last.path = << >>) =>
       last.res = [ ok |-> FALSE, err |-> "NotFound" ]
  /\ (last.op = "read_dir" /\ last.res.ok) =>
       \A p \in Range(last.res.v) : Len(p) > 1

C17_Witness ==
  /\ last.op = "read_dir" /\ last.path = << >>
  /\ last.res = [ ok |-> FALSE, err |-> "NotFound" ]
  /\ << "d" >> \in DOMAIN files
  /\ << "d" >> \in dirs


\* The kind the default rules name for a file name, read off its last parts.
Classified(path) ==
  LET n == Len(path)
  IN IF path[n] = ".tar" THEN { "Tar" }
     ELSE IF path[n] = ".tgz" THEN { "TarGz" }
     ELSE IF n > 1 /\ path[n] = ".gz" /\ path[n - 1] = ".tar" THEN { "TarGz" }
     ELSE {}

Definers(p) == { i \in DOMAIN log : p \in DOMAIN log[i].wrote }

WithMetaSuffix(path) ==
  SubSeq(path, 1, Len(path) - 1) \o << Join(Split(path[Len(path)]) \o << "meta" >>) >>

\* C15: read_meta(P) answers with the content of the file P.meta (a.png.meta
\* for a.png, a.meta for a) when that file is stored and with NotFound when
\* it is not, never with the content of P.
C15_MetaLookup ==
  last.op = "read_meta" =>
    \A store \in archive :
      last.res = Handed(ReadFile(store.files, WithMetaSuffix(last.path)))

\* C13: a built store stays built and unchanged, no query changes the store,
\* appends are applied only while the store is under construction.
C13_BuiltStoreIsFrozen ==
  /\ [][ archive # {} => archive' = archive ]_vars
  /\ [][ last' # last => (archive' = archive /\ loading' = loading /\ log' = log) ]_vars
  /\ [][ (loading' # loading \/ log' # log) => (archive = {} /\ lock' # 0) ]_vars

C13_Witness ==
  /\ archive # {}
  /\ \E c1, c2 \in Callers :
       /\ c1 # c2
       /\ out[c1].kind = "answered" /\ out[c2].kind = "answered"
       /\ out[c1].from = out[c2].from
  /\ last.op = "read_directory" /\ ~last.res.ok


InProgress(c) == pc[c] \in { "open", "read", "scan", "next", "fread", "query" }

Fetching(c) == pc[c] \in { "open", "read", "scan", "next", "fread" }

\* C18: from some point on every caller that has called has completed, with
\* an answer or an error, so that no call stays pending for ever; the lock is
\* free exactly when no caller is inside load's construction or its query,
\* also after a pass or a query that ended with an error; while the caller
\* that constructs stays in a fetch, no other caller completes.
C18_EveryCallCompletes ==
  /\ <>[](\A c \in Callers : pc[c] \in { "idle", "done" })
  /\ [](lock = 0 <=> \A c \in Callers : ~InProgress(c))
  /\ [](\A c \in Callers : InProgress(c) => lock = c)
  /\ [][ \A c \in Callers :
          (Fetching(c) /\ pc'[c] = pc[c]) =>
            \A d \in Callers \ { c } : pc'[d] = "done" => pc[d] = "done" ]_vars

C18_Witness ==
  /\ lock = 0
  /\ \E c1, c2 \in Callers :
       /\ pc[c1] = "done" /\ out[c1].kind = "Io"
       /\ pc[c2] = "done" /\ out[c2].kind = "answered"
       /\ ~last.res.ok

====
